---- MODULE Spec2Model ----
(***************************************************************************)
(* A model of art's command line (src/art/command_line.py): the download   *)
(* and install commands, the install-rule compiler, install_member and the *)
(* local cache they go through.                                            *)
(*                                                                         *)
(* Strings are sequences of one-character strings, so that startswith,     *)
(* endswith, slicing and os.path.join are computed character by character. *)
(* The 32-bit external_attr of a zip member is held as its two 16-bit      *)
(* halves [hi, lo], because the integers of the model checker are 32-bit   *)
(* signed and 0o100755 << 16 does not fit.                                 *)
(***************************************************************************)
EXTENDS Integers, Sequences, FiniteSets, TLC

\* ------------------------------------------------------------------ bounds
\* Length of the enumerated install patterns, destinations and member names
\* of the rule specification (SpecRules).
MaxPatLen == 2
MaxDestLen == 1
MaxNameLen == 3
\* Number of commands one session of the command specification (Spec) runs,
\* and of entries of its lock files.
MaxRuns == 2
MaxEntries == 2

\* ----------------------------------------------------------------- strings
Sep == "/"

StartsWith(f, s) == Len(s) <= Len(f) /\ SubSeq(f, 1, Len(s)) = s

EndsWith(f, s) == Len(s) <= Len(f) /\ SubSeq(f, Len(f) - Len(s) + 1, Len(f)) = s

\* f[n:]
Slice(f, n) == SubSeq(f, n + 1, Len(f))

\* os.path.join(a, b) of posixpath
PathJoin(a, b) ==
    IF StartsWith(b, <<Sep>>) THEN b
    ELSE IF a = <<>> \/ EndsWith(a, <<Sep>>) THEN a \o b
    ELSE a \o <<Sep>> \o b

\* index of the last separator of p, 0 when there is none (p.rfind('/') + 1)
RECURSIVE RFindSep(_, _)
RFindSep(p, n) ==
    IF n = 0 THEN 0
    ELSE IF p[n] = Sep THEN n
    ELSE RFindSep(p, n - 1)

\* p.rstrip('/')
RECURSIVE RStripSep(_)
RStripSep(p) ==
    IF p # <<>> /\ p[Len(p)] = Sep THEN RStripSep(SubSeq(p, 1, Len(p) - 1)) ELSE p

\* os.path.dirname(p) of posixpath
Dirname(p) ==
    LET head == SubSeq(p, 1, RFindSep(p, Len(p)))
    IN  IF head # <<>> /\ RStripSep(head) # <<>> THEN RStripSep(head) ELSE head

\* the directories os.makedirs(d) leaves in place: d and every ancestor of it
RECURSIVE Ancestors(_)
Ancestors(d) ==
    IF d = <<>> \/ RStripSep(d) = <<>> THEN {}
    ELSE {d} \cup (IF Dirname(d) = d THEN {} ELSE Ancestors(Dirname(d)))

Digits == <<"0", "1", "2", "3", "4", "5", "6", "7", "8", "9">>

\* '{}'.format(n) of a non-negative integer
RECURSIVE Format(_)
Format(n) ==
    IF n < 10 THEN <<Digits[n + 1]>>
    ELSE Format(n \div 10) \o <<Digits[(n % 10) + 1]>>

zip_name(project, job_id) ==
    PathJoin(project, Format(job_id) \o <<".", "z", "i", "p">>)

\* ------------------------------------------------------------- permissions
S_IRWXUGO == 511

UNIX == 3

\* a & b on non-negative integers
RECURSIVE BitAnd(_, _)
BitAnd(a, b) ==
    IF a = 0 \/ b = 0 THEN 0
    ELSE (a % 2) * (b % 2) + 2 * BitAnd(a \div 2, b \div 2)

\* external_attr >> 16 of the 32-bit field [hi, lo]
ShiftRight16(attr) == attr.hi

\* a plausible slip: the mask keeps setuid, setgid and sticky (0o7777)
AccessKeepsSpecialBits(member) ==
    IF member.create_system = UNIX
    THEN <<BitAnd(ShiftRight16(member.external_attr), 4095)>>
    ELSE <<>>

\* install_member's access: <<>> for None, <<bits>> when the member was made
\* on Unix
Access(member) ==
    IF member.create_system = UNIX
    THEN <<BitAnd(ShiftRight16(member.external_attr), S_IRWXUGO)>>
    ELSE <<>>


\* ------------------------------------------------------------ install rules
\* a plausible slip: the empty pattern special-cased into copy-all
CompileRuleEmptyIsAll(source, destination) ==
    [kind |-> IF source = <<".">> \/ source = <<>> THEN "all"
              ELSE IF EndsWith(source, <<"/">>) THEN "dir"
              ELSE "file",
     s |-> source, d |-> destination]

\* one (match, translate) pair: the branch taken for source, with the s and d
\* its two lambdas capture
CompileRule(source, destination) ==
    [kind |-> IF source = <<".">> THEN "all"
              ELSE IF EndsWith(source, <<"/">>) THEN "dir"
              ELSE "file",
     s |-> source, d |-> destination]

\* the list installs of one entry, in the order of entry['install'].items()
Compile(install) ==
    [k \in 1..Len(install) |-> CompileRule(install[k][1], install[k][2])]

\* the first lambda of the pair
Match(rule, f) ==
    CASE rule.kind = "all" -> TRUE
      [] rule.kind = "dir" -> StartsWith(f, rule.s)
      [] OTHER -> f = rule.s

\* a plausible slip: the directory rule joins the whole filename
TranslateKeepsPrefix(rule, f) ==
    CASE rule.kind = "all" -> PathJoin(rule.d, f)
      [] rule.kind = "dir" -> PathJoin(rule.d, f)
      [] OTHER -> rule.d

\* the second lambda of the pair
Translate(rule, f) ==
    CASE rule.kind = "all" -> PathJoin(rule.d, f)
      [] rule.kind = "dir" -> PathJoin(rule.d, Slice(f, Len(rule.s)))
      [] OTHER -> rule.d

\* a plausible slip: directory members are not skipped
IsDirectoryNever(filename) == FALSE

\* member.filename.endswith('/')
IsDirectory(filename) == EndsWith(filename, <<"/">>)

\* a plausible slip: a break after install_member, first match wins
NextRuleBreaks(r, n) == n + 1

\* the rule tested after rule r of n: the loop over installs has no break
NextRule(r, n) == r + 1

\* ------------------------------------------------------------------- cache
\* _cache.get(key) succeeds
CacheHas(c, key) == key \in DOMAIN c

\* what _cache.get(key) reads
CacheGet(c, key) == c[key]

\* no save scope is open
NoTmp == [open |-> FALSE, key |-> <<>>, data |-> <<>>]

\* _cache.save_file(key): the sink, opened against a temporary location
SaveOpen(key) == [open |-> TRUE, key |-> key, data |-> <<>>]

\* clean exit of the save scope: the temporary file becomes the entry
SaveCommit(c, t) == (t.key :> t.data) @@ c

\* a plausible slip: the sink is the final file, a failed save leaves it there
SaveAbortKeepsFile(c, t) == (t.key :> t.data) @@ c

\* failing exit of the save scope: the temporary file is discarded
SaveAbort(c, t) == c

\* ------------------------------------------------------------------ inputs
\* the characters the enumerated patterns, destinations and names are made of
Alphabet == {"a", "/", "."}

\* every string over Alphabet of at most n characters
Strs(n) == UNION {[1..k -> Alphabet] : k \in 0..n}

S_dot == <<".">>
S_a == <<"a">>
S_b == <<"b">>
S_lib == <<"l", "i", "b", "/">>
S_vendor == <<"v", "e", "n", "d", "o", "r">>
S_lib_x_so == <<"l", "i", "b", "/", "x", ".", "s", "o">>
S_vendor_x_so == <<"v", "e", "n", "d", "o", "r", "/", "x", ".", "s", "o">>
S_out == <<"o", "u", "t">>
S_out_a == <<"o", "u", "t", "/", "a">>
P42 == <<"4", "2">>
PGrp == <<"g", "/", "p">>

\* a zip member: ZipInfo.filename, .create_system, .external_attr and the payload
ZipMember(filename, create_system, hi, lo, payload) ==
    [filename |-> filename, create_system |-> create_system,
     external_attr |-> [hi |-> hi, lo |-> lo], payload |-> payload]

\* the archive of project 42, job 7: a directory member (mode 040755), a Unix
\* member of mode 0100755 and a member made on another system
Artifact7 ==
    << ZipMember(S_lib, UNIX, 16877, 16, <<>>),
       ZipMember(S_lib_x_so, UNIX, 33261, 0, <<1, 2>>),
       ZipMember(S_a, 0, 493, 32, <<3>>) >>

\* the archive of project g/p, job 10: one Unix member of mode 0104755 (setuid)
Artifact10 == << ZipMember(S_a, UNIX, 35309, 0, <<4, 5>>) >>

\* entry['install'] mappings, as the ordered (source, destination) items
MapLib == << <<S_lib, S_vendor>> >>
MapAllThenFile == << <<S_dot, S_out>>, <<S_a, S_out_a>> >>
MapFileThenAll == << <<S_a, S_b>>, <<S_dot, <<>> >> >>

LockEntry(project, job_id, install) ==
    [project |-> project, job_id |-> job_id, install |-> install]

\* the entries the lock files are made of
Entries ==
    { LockEntry(P42, 7, MapLib),
      LockEntry(P42, 7, MapAllThenFile),
      LockEntry(PGrp, 10, MapAllThenFile),
      LockEntry(PGrp, 10, MapFileThenAll) }

\* the artifacts lock files of the command specification
LockFiles == UNION {[1..n -> Entries] : n \in 0..MaxEntries}

\* what the server holds for each job: key |-> the archive, chunk by chunk
Server == (zip_name(P42, 7) :> Artifact7) @@ (zip_name(PGrp, 10) :> Artifact10)

\* ------------------------------------------------------------------- state
VARIABLES
    lock,       \* artifacts_lock: the entries of the lock file
    remote,     \* the server: key |-> the archive job.artifacts streams
    cache,      \* the local cache: key |-> the saved archive
    tmp,        \* the temporary file of the save scope
    fs,         \* files of the working directory: path |-> [data, mode]
    dirs,       \* directories created in the working directory
    cmd,        \* the command started last: "none", "download" or "install"
    pc,         \* where it is
    i,          \* index of entry in artifacts_lock
    m,          \* index of member in archive.infolist()
    r,          \* index of (match, translate) in installs
    installs,   \* install's list of compiled rules
    archive,    \* install's opened archive: its infolist
    handles,    \* the open handles
    log,        \* the effects of the running command, in order
    runs,       \* commands started
    status,     \* how the last command ended, "running" while it runs
    fault,      \* where the environment failed the running command
    cache0,     \* the keys the cache held when the command started
    prev        \* the command before: its name, status, fault and effects

vars == <<lock, remote, cache, tmp, fs, dirs, cmd, pc, i, m, r, installs,
          archive, handles, log, runs, status, fault, cache0, prev>>

\* what is kept of a command when the next one starts
Past(c, st, f, l) == [cmd |-> c, status |-> st, fault |-> f, log |-> l]

Effect(op, e, mm, rr, path, val) ==
    [op |-> op, e |-> e, m |-> mm, r |-> rr, path |-> path, val |-> val]

Fault(op, e, mm, rr) == [op |-> op, e |-> e, m |-> mm, r |-> rr]

NoFault == Fault("none", 0, 0, 0)

Init ==
    /\ lock \in LockFiles
    /\ remote = Server
    /\ cache = <<>>
    /\ tmp = NoTmp
    /\ fs = <<>>
    /\ dirs = {}
    /\ cmd = "none"
    /\ pc = "idle"
    /\ i = 0 /\ m = 0 /\ r = 0
    /\ installs = <<>>
    /\ archive = <<>>
    /\ handles = {}
    /\ log = <<>>
    /\ runs = 0
    /\ status = "none"
    /\ fault = NoFault
    /\ cache0 = {}
    /\ prev = Past("none", "none", NoFault, <<>>)

\* ---------------------------------------------------------------- download
Key(e) == zip_name(lock[e].project, lock[e].job_id)

\* a plausible slip: the cache is not consulted, every entry is downloaded
DownloadBranchAlwaysMisses(filename) == "downloading"

\* the try / except KeyError / else around _cache.get(filename)
DownloadBranch(filename) ==
    IF CacheHas(cache, filename) THEN "present" ELSE "downloading"

\* job.artifacts raises inside "with _cache.save_file(filename) as f": the
\* scope is left by the exception
ScopeExitOnError(c, t) == SaveAbort(c, t)

\* the download command is started; get_gitlab() may raise ConfigException
RunDownload ==
    /\ status # "running" /\ runs < MaxRuns
    /\ runs' = runs + 1
    /\ prev' = Past(cmd, status, fault, log)
    /\ cmd' = "download"
    /\ log' = <<>>
    /\ cache0' = DOMAIN cache
    /\ i' = 1 /\ m' = 0 /\ r' = 0
    /\ \E configured \in BOOLEAN :
         IF configured
         THEN pc' = "d_entry" /\ status' = "running" /\ fault' = NoFault
         ELSE pc' = "idle" /\ status' = "failed"
              /\ fault' = Fault("config", 0, 0, 0)
    /\ UNCHANGED <<lock, remote, cache, tmp, fs, dirs, installs, archive, handles>>

\* one turn of "for entry in artifacts_lock", up to the call of job.artifacts
D_Entry ==
    /\ cmd = "download" /\ pc = "d_entry"
    /\ IF i > Len(lock)
       THEN /\ pc' = "idle" /\ status' = "ok"
            /\ UNCHANGED <<i, log, tmp>>
       ELSE IF DownloadBranch(Key(i)) = "present"
       THEN /\ log' = Append(log, Effect("present", i, 0, 0, Key(i), <<>>))
            /\ i' = i + 1
            /\ UNCHANGED <<pc, status, tmp>>
       ELSE /\ log' = log \o << Effect("downloading", i, 0, 0, Key(i), <<>>),
                                Effect("save_file", i, 0, 0, Key(i), <<>>),
                                Effect("fetch", i, 0, 0, Key(i), <<>>) >>
            /\ tmp' = SaveOpen(Key(i))
            /\ pc' = "d_fetch"
            /\ UNCHANGED <<i, status>>
    /\ UNCHANGED <<lock, remote, cache, fs, dirs, cmd, m, r, installs, archive,
                   handles, runs, fault, cache0, prev>>

\* job.artifacts(streamed=True, action=f.write) hands one chunk to f.write, or
\* fails: the exception leaves the save scope and the command
D_Write ==
    /\ cmd = "download" /\ pc = "d_fetch"
    /\ Len(tmp.data) < Len(remote[tmp.key])
    /\ \E ok \in BOOLEAN :
         IF ok
         THEN /\ tmp' = [tmp EXCEPT !.data = Append(@, remote[tmp.key][Len(@) + 1])]
              /\ UNCHANGED <<cache, pc, status, fault>>
         ELSE /\ cache' = ScopeExitOnError(cache, tmp)
              /\ tmp' = NoTmp
              /\ pc' = "idle" /\ status' = "failed"
              /\ fault' = Fault("fetch", i, 0, 0)
    /\ UNCHANGED <<lock, remote, fs, dirs, cmd, i, m, r, installs, archive,
                   handles, log, runs, cache0, prev>>

\* job.artifacts returns: the save scope is left cleanly, "downloaded." is echoed
D_Done ==
    /\ cmd = "download" /\ pc = "d_fetch"
    /\ tmp.data = remote[tmp.key]
    /\ cache' = SaveCommit(cache, tmp)
    /\ tmp' = NoTmp
    /\ log' = log \o << Effect("saved", i, 0, 0, Key(i), <<>>),
                        Effect("downloaded", i, 0, 0, Key(i), <<>>) >>
    /\ i' = i + 1
    /\ pc' = "d_entry"
    /\ UNCHANGED <<lock, remote, fs, dirs, cmd, m, r, installs, archive, handles,
                   runs, status, fault, cache0, prev>>

\* the process is terminated inside the save scope
D_Kill ==
    /\ cmd = "download" /\ pc = "d_fetch"
    /\ cache' = SaveAbort(cache, tmp)
    /\ tmp' = NoTmp
    /\ pc' = "idle" /\ status' = "killed"
    /\ fault' = Fault("kill", i, 0, 0)
    /\ UNCHANGED <<lock, remote, fs, dirs, cmd, i, m, r, installs, archive,
                   handles, log, runs, cache0, prev>>

\* ----------------------------------------------------------------- install
\* a plausible slip: a miss is answered by fetching the archive
InstallArchiveFetchesOnMiss(filename) ==
    IF CacheHas(cache, filename)
    THEN [hit |-> TRUE, infolist |-> CacheGet(cache, filename)]
    ELSE [hit |-> TRUE, infolist |-> remote[filename]]

\* archive_file = _cache.get(filename), outside any try: a miss is a KeyError
InstallArchive(filename) ==
    IF CacheHas(cache, filename)
    THEN [hit |-> TRUE, infolist |-> CacheGet(cache, filename)]
    ELSE [hit |-> FALSE, infolist |-> <<>>]

\* a plausible slip: the failure is caught and the loop goes on with the next rule
RaiseSwallowed(rr) == [pc |-> "i_rule", status |-> "running", r |-> rr + 1]

\* an exception raised under install: nothing catches it, the command ends
Raise(rr) == [pc |-> "idle", status |-> "failed", r |-> rr]

Handle(kind, e) == [kind |-> kind, e |-> e]

\* the member and the target of the running install_member call
Member == archive[m]

Target == Translate(installs[r], Member.filename)

\* os.sep in target
HasSep(target) == \E k \in 1..Len(target) : target[k] = Sep

\* makedirs cannot succeed when a file stands where a directory is needed
MkdirsBlocked(d) == \E a \in Ancestors(d) : a \in DOMAIN fs

\* os.path.basename(p) of posixpath
Basename(p) == Slice(p, RFindSep(p, Len(p)))

\* open(target, 'wb') cannot succeed on an empty name or on a directory
OpenBlocked(target) ==
    \/ target = <<>>
    \/ EndsWith(target, <<Sep>>)
    \/ Basename(target) \in {<<".">>, <<".", ".">>}
    \/ target \in dirs

\* the mode of a file open(target, 'wb') creates or truncates: <<>> stands for
\* the default of the file system
ModeAfterOpen(target) == IF target \in DOMAIN fs THEN fs[target].mode ELSE <<>>

File(data, mode) == [data |-> data, mode |-> mode]

\* the install command is started
RunInstall ==
    /\ status # "running" /\ runs < MaxRuns
    /\ runs' = runs + 1
    /\ prev' = Past(cmd, status, fault, log)
    /\ log' = <<>>
    /\ cache0' = DOMAIN cache
    /\ i' = 1 /\ m' = 0 /\ r' = 0
    /\ cmd' = "install" /\ pc' = "i_entry" /\ status' = "running"
    /\ fault' = NoFault
    /\ installs' = <<>> /\ archive' = <<>>
    /\ UNCHANGED <<lock, remote, cache, tmp, fs, dirs, handles>>

\* one turn of "for entry in artifacts_lock", up to the loop over the members:
\* the rules are compiled, the archive is taken from the cache and opened.
\* Binding archive_file and archive drops the last references to the handles of
\* the entry before; when they are closed is up to the interpreter.
I_Entry ==
    /\ cmd = "install" /\ pc = "i_entry"
    /\ IF i > Len(lock)
       THEN /\ pc' = "idle" /\ status' = "ok"
            /\ handles' = {}
            /\ UNCHANGED <<i, m, r, installs, archive, fault>>
       ELSE /\ installs' = Compile(lock[i].install)
            /\ LET got == InstallArchive(Key(i))
               IN  IF ~got.hit
                   THEN /\ pc' = "idle" /\ status' = "failed"
                        /\ fault' = Fault("get", i, 0, 0)
                        /\ handles' = {}
                        /\ UNCHANGED <<i, m, r, archive>>
                   ELSE \E opened \in BOOLEAN, collected \in BOOLEAN :
                        IF opened
                        THEN /\ archive' = got.infolist
                             /\ handles' = (IF collected THEN {} ELSE handles)
                                  \cup {Handle("archive_file", i), Handle("archive", i)}
                             /\ m' = 1 /\ r' = 0
                             /\ pc' = "i_member"
                             /\ UNCHANGED <<i, status, fault>>
                        ELSE /\ pc' = "idle" /\ status' = "failed"
                             /\ fault' = Fault("zipfile", i, 0, 0)
                             /\ handles' = {}
                             /\ UNCHANGED <<i, m, r, archive>>
    /\ UNCHANGED <<lock, remote, cache, tmp, fs, dirs, cmd, log, runs, cache0,
                   prev>>

\* one turn of "for member in archive.infolist()": directories are skipped
I_Member ==
    /\ cmd = "install" /\ pc = "i_member"
    /\ IF m > Len(archive)
       THEN i' = i + 1 /\ pc' = "i_entry" /\ m' = 0 /\ r' = 0
       ELSE IF IsDirectory(Member.filename)
       THEN m' = m + 1 /\ UNCHANGED <<i, pc, r>>
       ELSE r' = 1 /\ pc' = "i_rule" /\ UNCHANGED <<i, m>>
    /\ UNCHANGED <<lock, remote, cache, tmp, fs, dirs, cmd, installs, archive,
                   handles, log, runs, status, fault, cache0, prev>>

\* one turn of "for match, translate in installs": on a match install_member is
\* entered, access is computed and the progress line is echoed
I_Rule ==
    /\ cmd = "install" /\ pc = "i_rule"
    /\ IF r > Len(installs)
       THEN m' = m + 1 /\ pc' = "i_member" /\ UNCHANGED <<r, log>>
       ELSE IF Match(installs[r], Member.filename)
       THEN /\ log' = Append(log, Effect("echo", i, m, r, Target, Access(Member)))
            /\ pc' = IF HasSep(Target) THEN "im_mkdirs" ELSE "im_open"
            /\ UNCHANGED <<m, r>>
       ELSE r' = r + 1 /\ UNCHANGED <<m, pc, log>>
    /\ UNCHANGED <<lock, remote, cache, tmp, fs, dirs, cmd, i, installs, archive,
                   handles, runs, status, fault, cache0, prev>>

\* the exception of a failed step of install_member leaves install
Failed(op) ==
    /\ pc' = Raise(r).pc /\ status' = Raise(r).status
    /\ r' = Raise(r).r
    /\ fault' = Fault(op, i, m, r)
    /\ handles' = IF Raise(r).status = "failed" THEN {}
                  ELSE {h \in handles : h.kind \in {"archive_file", "archive"}}

\* _paths.mkdirs(os.path.dirname(target))
IM_Mkdirs ==
    /\ cmd = "install" /\ pc = "im_mkdirs"
    /\ \E ok \in BOOLEAN :
         IF ok /\ ~MkdirsBlocked(Dirname(Target))
         THEN /\ dirs' = dirs \cup Ancestors(Dirname(Target))
              /\ log' = Append(log, Effect("mkdirs", i, m, r, Dirname(Target), <<>>))
              /\ pc' = "im_open"
              /\ UNCHANGED <<r, status, fault, handles>>
         ELSE Failed("mkdirs") /\ UNCHANGED <<dirs, log>>
    /\ UNCHANGED <<lock, remote, cache, tmp, fs, cmd, i, m, installs, archive,
                   runs, cache0, prev>>

\* archive.open(member), then open(target, 'wb'): the file is created or
\* truncated
IM_Open ==
    /\ cmd = "install" /\ pc = "im_open"
    /\ \E ok \in BOOLEAN :
         IF ok /\ ~OpenBlocked(Target)
         THEN /\ fs' = (Target :> File(<<>>, ModeAfterOpen(Target))) @@ fs
              /\ handles' = handles \cup {Handle("fmember", i), Handle("ftarget", i)}
              /\ log' = Append(log, Effect("open", i, m, r, Target, <<>>))
              /\ pc' = "im_copy"
              /\ UNCHANGED <<r, status, fault>>
         ELSE Failed("open") /\ UNCHANGED <<fs, log>>
    /\ UNCHANGED <<lock, remote, cache, tmp, dirs, cmd, i, m, installs, archive,
                   runs, cache0, prev>>

\* shutil.copyfileobj(fmember, ftarget) and the exit of the two with blocks:
\* n bytes reach the file before a failure
IM_Copy ==
    /\ cmd = "install" /\ pc = "im_copy"
    /\ \E ok \in BOOLEAN, n \in 0..Len(Member.payload) :
         /\ ok => n = Len(Member.payload)
         /\ fs' = [fs EXCEPT ![Target].data = SubSeq(Member.payload, 1, n)]
         /\ IF ok
            THEN /\ log' = Append(log, Effect("write", i, m, r, Target, Member.payload))
                 /\ handles' = handles \ {Handle("fmember", i), Handle("ftarget", i)}
                 /\ IF Access(Member) # <<>>
                    THEN pc' = "im_chmod" /\ r' = r
                    ELSE pc' = "i_rule" /\ r' = NextRule(r, Len(installs))
                 /\ UNCHANGED <<status, fault>>
            ELSE Failed("copy") /\ UNCHANGED log
    /\ UNCHANGED <<lock, remote, cache, tmp, dirs, cmd, i, m, installs, archive,
                   runs, cache0, prev>>

\* os.chmod(target, access)
IM_Chmod ==
    /\ cmd = "install" /\ pc = "im_chmod"
    /\ \E ok \in BOOLEAN :
         IF ok
         THEN /\ fs' = [fs EXCEPT ![Target].mode = Access(Member)]
              /\ log' = Append(log, Effect("chmod", i, m, r, Target, Access(Member)))
              /\ pc' = "i_rule" /\ r' = NextRule(r, Len(installs))
              /\ UNCHANGED <<status, fault, handles>>
         ELSE Failed("chmod") /\ UNCHANGED <<fs, log>>
    /\ UNCHANGED <<lock, remote, cache, tmp, dirs, cmd, i, m, installs, archive,
                   runs, cache0, prev>>

\* ---------------------------------------------------------- specifications
Download == D_Entry \/ D_Write \/ D_Done \/ D_Kill

Install == I_Entry \/ I_Member \/ I_Rule \/ IM_Mkdirs \/ IM_Open \/ IM_Copy \/ IM_Chmod

Next == RunDownload \/ RunInstall \/ Download \/ Install

\* sessions of at most MaxRuns commands over the lock files of LockFiles
Spec == Init /\ [][Next]_vars

\* the (pattern, destination) rules and the member names of the rule
\* specification: every short string, and the strings of the documented example
Patterns == Strs(MaxPatLen) \cup {S_lib}

Dests == Strs(MaxDestLen) \cup {S_vendor}

Names == Strs(MaxNameLen) \cup {S_lib_x_so}

\* install has just been started on a lock file of one entry with one rule,
\* whose archive, already in the cache, has one member
InitRules ==
    /\ \E p \in Patterns, d \in Dests :
         lock = << LockEntry(P42, 7, << <<p, d>> >>) >>
    /\ \E f \in Names :
         remote = (zip_name(P42, 7) :> << ZipMember(f, UNIX, 33261, 0, <<1, 2>>) >>)
    /\ cache = remote
    /\ tmp = NoTmp
    /\ fs = <<>>
    /\ dirs = {}
    /\ cmd = "install"
    /\ pc = "i_entry"
    /\ i = 1 /\ m = 0 /\ r = 0
    /\ installs = <<>>
    /\ archive = <<>>
    /\ handles = {}
    /\ log = <<>>
    /\ runs = 1
    /\ status = "running"
    /\ fault = NoFault
    /\ cache0 = DOMAIN cache
    /\ prev = Past("download", "ok", NoFault, <<>>)

\* one install run per (pattern, destination, member name)
SpecRules == InitRules /\ [][Install]_vars

\* ------------------------------------------------------------------ claims
\* the positions of log l whose effect is op on path
At(l, op, path) == {j \in 1..Len(l) : l[j].op = op /\ l[j].path = path}

\* the positions of log l whose effect is op for entry e
AtEntry(l, op, e) == {j \in 1..Len(l) : l[j].op = op /\ l[j].e = e}

NetworkOps == {"save_file", "fetch", "saved"}

\* C1: in a download run, an entry whose key the cache lacked when it was
\* reached is fetched once and saved once, and get of its key then succeeds
\* with the archive of the server; an entry whose key the cache held takes the
\* "present" branch without fetch or save; a download run that follows a
\* download run that ended well reports "present" for every entry and neither
\* fetches nor saves.
DownloadFetchesOnceThenPresent ==
    cmd = "download" =>
      /\ \A e \in 1..Len(lock) : e < i =>
           /\ CacheHas(cache, Key(e))
           /\ CacheGet(cache, Key(e)) = remote[Key(e)]
           /\ Key(e) \notin cache0 =>
                /\ Cardinality(At(log, "fetch", Key(e))) = 1
                /\ Cardinality(At(log, "saved", Key(e))) = 1
                /\ \E e0 \in 1..e : Key(e0) = Key(e) /\ AtEntry(log, "downloaded", e0) # {}
           /\ Key(e) \in cache0 =>
                /\ AtEntry(log, "present", e) # {}
                /\ \A op \in NetworkOps : At(log, op, Key(e)) = {}
      /\ (prev.cmd = "download" /\ prev.status = "ok") =>
           /\ \A j \in 1..Len(log) : log[j].op = "present"
           /\ \A e \in 1..Len(lock) : e < i => AtEntry(log, "present", e) # {}

\* C1 happens: a download fetched and saved the key of entry 1, and the
\* download after it has ended having reported "present" for it with no fetch
DownloadTwice ==
    /\ cmd = "download" /\ status = "ok" /\ Len(lock) >= 1
    /\ prev.cmd = "download" /\ prev.status = "ok"
    /\ At(prev.log, "fetch", Key(1)) # {} /\ At(prev.log, "saved", Key(1)) # {}
    /\ AtEntry(log, "present", 1) # {}
    /\ \A j \in 1..Len(log) : log[j].op \notin NetworkOps

\* a step leaves the entries of the cache alone, or adds the key of a save
\* scope whose sink holds the whole archive of the server
OnlyCompleteSaves ==
    \A k \in DOMAIN cache' :
       IF k \in DOMAIN cache THEN cache'[k] = cache[k]
       ELSE tmp.open /\ tmp.key = k /\ tmp.data = remote[k] /\ cache'[k] = tmp.data

\* C2: when the fetch fails or the process is killed inside the save scope of
\* key K, get(K) fails afterwards, and keeps failing until a save of K
\* completes; no entry of the cache is ever a truncated archive; the save that
\* completes makes get(K) return what was saved.
InterruptedSaveLeavesNoEntry ==
    /\ [](/\ \A k \in DOMAIN cache : cache[k] = remote[k]
          /\ (cmd = "download" /\ fault.op \in {"fetch", "kill"}) =>
               /\ ~CacheHas(cache, Key(fault.e))
               /\ ~tmp.open
               /\ status \in {"failed", "killed"})
    /\ [][DOMAIN cache \subseteq DOMAIN cache' /\ OnlyCompleteSaves]_vars

\* C2 happens: a download was interrupted inside the save of a key, and the
\* download after it has saved that key
SavedAfterInterruption ==
    /\ cmd = "download" /\ prev.cmd = "download"
    /\ prev.fault.op \in {"fetch", "kill"}
    /\ prev.status \in {"failed", "killed"}
    /\ At(log, "saved", Key(prev.fault.e)) # {}
    /\ CacheHas(cache, Key(prev.fault.e))
    /\ CacheGet(cache, Key(prev.fault.e)) = remote[Key(prev.fault.e)]

\* install has taken entry e from the cache, or failed to
Reached(e) == e < i \/ (e = i /\ pc # "i_entry")

\* C3 as claimed: when install reaches an entry whose key the cache lacked, the
\* archive is fetched into the cache and the run does not fail on the miss.
InstallMissTriggersDownload ==
    cmd = "install" =>
      \A e \in 1..Len(lock) : (Reached(e) /\ Key(e) \notin cache0) =>
         CacheHas(cache, Key(e)) /\ fault.op # "get"

\* C3 as amended: when install reaches an entry whose key the cache lacks, the
\* not-found failure of get ends the run there: nothing is fetched or saved,
\* and no member of that entry is installed.
InstallMissFails ==
    cmd = "install" =>
      \A e \in 1..Len(lock) : (Reached(e) /\ Key(e) \notin cache0) =>
         /\ status = "failed" /\ pc = "idle"
         /\ fault = Fault("get", e, 0, 0)
         /\ i = e
         /\ DOMAIN cache = cache0 /\ ~tmp.open
         /\ \A j \in 1..Len(log) : log[j].e < e /\ log[j].op \notin NetworkOps

\* C3 happens: install failed on the miss of its second entry after the first
\* entry was installed
InstallMissedSecondEntry ==
    /\ cmd = "install" /\ status = "failed" /\ fault = Fault("get", 2, 0, 0)
    /\ Key(2) \notin DOMAIN cache
    /\ \E j \in 1..Len(log) : log[j].op = "write" /\ log[j].e = 1

\* the compiled rules and the members of entry e
Rules(e) == Compile(lock[e].install)

Members(e) == remote[Key(e)]

Name(e, mm) == Members(e)[mm].filename

\* the rules of entry e that match member mm
Matching(e, mm) == {k \in 1..Len(Rules(e)) : Match(Rules(e)[k], Name(e, mm))}

\* the loop over the members of entry e has left member mm behind
Done(e, mm) == e < i \/ (e = i /\ mm < m)

\* the positions of the log where member mm of entry e was written
Writes(e, mm) ==
    {j \in 1..Len(log) : log[j].op = "write" /\ log[j].e = e /\ log[j].m = mm}

InstallEffects == {"echo", "mkdirs", "open", "write", "chmod"}

\* C4: the writes of one member follow the declared order of the rules, each
\* is for a rule that matches and goes to the path that rule translates to;
\* once the loop has left a member that is no directory, it was written once
\* per matching rule, k times for k rules; and the last write to a path is
\* the one of the last declared rule that translates to that path.
EveryMatchingRuleInstalls ==
    cmd = "install" =>
      /\ \A j1, j2 \in 1..Len(log) :
           (/\ j1 < j2
            /\ log[j1].op = "write" /\ log[j2].op = "write"
            /\ log[j1].e = log[j2].e /\ log[j1].m = log[j2].m)
           => log[j1].r < log[j2].r
      /\ \A j \in 1..Len(log) : log[j].op = "write" =>
           /\ log[j].r \in Matching(log[j].e, log[j].m)
           /\ log[j].path = Translate(Rules(log[j].e)[log[j].r], Name(log[j].e, log[j].m))
      /\ \A e \in 1..Len(lock) : \A mm \in 1..Len(Members(e)) :
           (Done(e, mm) /\ ~EndsWith(Name(e, mm), <<"/">>)) =>
             /\ {log[j].r : j \in Writes(e, mm)} = Matching(e, mm)
             /\ Cardinality(Writes(e, mm)) = Cardinality(Matching(e, mm))
             /\ \A j \in Writes(e, mm) :
                  (\A j2 \in Writes(e, mm) : log[j2].path = log[j].path => j2 <= j)
                  => \A k \in Matching(e, mm) :
                       Translate(Rules(e)[k], Name(e, mm)) = log[j].path => k <= log[j].r

\* C4 happens: a member matched by two rules that translate to the same path
\* was written twice
SameDestinationTwice ==
    /\ cmd = "install"
    /\ \E e \in 1..Len(lock) : \E mm \in 1..Len(Members(e)) :
         /\ Done(e, mm)
         /\ Cardinality(Writes(e, mm)) = 2
         /\ \E k1, k2 \in Matching(e, mm) :
              /\ k1 < k2
              /\ Translate(Rules(e)[k1], Name(e, mm)) = Translate(Rules(e)[k2], Name(e, mm))

\* a step that changes the working directory is a step of install_member for a
\* member that is no directory and a rule that matches it
TouchedByMatchedFile ==
    (fs' # fs \/ dirs' # dirs) =>
       /\ cmd = "install"
       /\ m \in 1..Len(archive) /\ r \in 1..Len(installs)
       /\ ~EndsWith(Member.filename, <<"/">>)
       /\ Match(installs[r], Member.filename)

\* C7: every effect of an install run is for a member that is no directory and
\* a rule that matches it; a directory member and a member no rule matches
\* leave no effect and no failure; no other step changes the working directory.
OnlyMatchedFilesTouchDisk ==
    /\ [](cmd = "install" =>
           /\ \A j \in 1..Len(log) :
                /\ log[j].op \in InstallEffects
                /\ log[j].e \in 1..Len(lock)
                /\ log[j].m \in 1..Len(Members(log[j].e))
                /\ ~EndsWith(Name(log[j].e, log[j].m), <<"/">>)
                /\ log[j].r \in Matching(log[j].e, log[j].m)
           /\ \A e \in 1..Len(lock) : \A mm \in 1..Len(Members(e)) :
                (EndsWith(Name(e, mm), <<"/">>) \/ Matching(e, mm) = {}) =>
                   ~(fault.e = e /\ fault.m = mm))
    /\ [][TouchedByMatchedFile]_vars

\* C7 happens: an install run ended well after it left behind a directory
\* member that a rule matches and a member that no rule matches, and wrote a
\* member after them
SkippedDirectoryAndUnmatched ==
    /\ cmd = "install" /\ status = "ok"
    /\ \E e \in 1..Len(lock) : \E m1, m2 \in 1..Len(Members(e)) :
         /\ EndsWith(Name(e, m1), <<"/">>) /\ Matching(e, m1) # {}
         /\ ~EndsWith(Name(e, m2), <<"/">>) /\ Matching(e, m2) = {}
         /\ \E j \in 1..Len(log) : log[j].op = "write" /\ log[j].e > e

\* C8: chmod is called only for a member made on Unix, with
\* ((external_attr >> 16) mod 2^16) mod 2^9, right after the write of that
\* member; modes 0100755 and 0104755 give 0755; the write of a Unix member is
\* followed by its chmod; no chmod and no wait for one follows the write of
\* another member; no file carries a bit above 0777.
PermissionBitsMasked ==
    cmd = "install" =>
      /\ \A j \in 1..Len(log) : log[j].op = "chmod" =>
           LET mem == Members(log[j].e)[log[j].m]
           IN  /\ mem.create_system = 3
               /\ log[j].val = <<(mem.external_attr.hi % 65536) % 512>>
               /\ mem.external_attr.hi \in {33261, 35309} => log[j].val = <<493>>
               /\ j > 1
               /\ log[j - 1] = Effect("write", log[j].e, log[j].m, log[j].r,
                                      log[j].path, mem.payload)
               /\ (\A j2 \in 1..Len(log) : (j2 > j => log[j2].path # log[j].path))
                    => fs[log[j].path].mode = log[j].val
      /\ \A j \in 1..Len(log) : log[j].op = "write" =>
           IF Members(log[j].e)[log[j].m].create_system = 3
           THEN IF j < Len(log)
                THEN log[j + 1].op = "chmod" /\ log[j + 1].path = log[j].path
                ELSE pc = "im_chmod" \/ fault.op = "chmod"
           ELSE IF j < Len(log)
                THEN log[j + 1].op # "chmod"
                ELSE pc # "im_chmod" /\ fault.op # "chmod"
      /\ \A p \in DOMAIN fs : fs[p].mode # <<>> => fs[p].mode[1] < 512

\* C8 happens: a setuid member (0104755) was installed with mode 0755, and a
\* member made on another system was written
SetuidMemberInstalled ==
    /\ cmd = "install"
    /\ \E j \in 1..Len(log) :
         /\ log[j].op = "chmod"
         /\ Members(log[j].e)[log[j].m].external_attr.hi = 35309
         /\ log[j].val = <<493>>
    /\ \E j \in 1..Len(log) :
         /\ log[j].op = "write"
         /\ Members(log[j].e)[log[j].m].create_system # 3

\* position a is not after position b in the order of the three loops
NotAfter(a, b) ==
    \/ a.e < b.e
    \/ a.e = b.e /\ a.m < b.m
    \/ a.e = b.e /\ a.m = b.m /\ a.r <= b.r

\* C9: once a step of install_member has failed, the run has ended as failed
\* at that entry, member and rule; the log holds nothing for a later rule,
\* member or entry and no step twice; and every file written before, and not
\* opened again since, still holds what was written.
FailurePropagates ==
    (cmd = "install" /\ fault.op \in {"mkdirs", "open", "copy", "chmod"}) =>
      /\ status = "failed" /\ pc = "idle"
      /\ i = fault.e /\ m = fault.m /\ r = fault.r
      /\ \A j \in 1..Len(log) : NotAfter(log[j], fault)
      /\ \A j1, j2 \in 1..Len(log) :
           (/\ j1 # j2
            /\ log[j1].e = log[j2].e /\ log[j1].m = log[j2].m
            /\ log[j1].r = log[j2].r) => log[j1].op # log[j2].op
      /\ \A j \in 1..Len(log) :
           (/\ log[j].op = "write"
            /\ \A j2 \in 1..Len(log) :
                 (j2 > j /\ log[j2].op = "open") => log[j2].path # log[j].path)
           => /\ log[j].path \in DOMAIN fs
              /\ fs[log[j].path].data = log[j].val

\* C9 happens: a copy failed after another file was written, with an entry
\* still to come
CopyFailedMidway ==
    /\ cmd = "install" /\ fault.op = "copy" /\ status = "failed"
    /\ fault.e < Len(lock)
    /\ \E j \in 1..Len(log) :
         /\ log[j].op = "write"
         /\ log[j].path \in DOMAIN fs /\ fs[log[j].path].data = log[j].val

\* C10 as claimed: when install starts an entry, and when it has ended, no
\* handle is open.
HandlesReleasedBetweenEntries ==
    (cmd = "install" /\ (pc = "i_entry" \/ status # "running")) => handles = {}

\* install has compiled the rules of entry e and is about to apply them
JustCompiled(e) == e = i /\ pc = "i_member" /\ m = 1

\* the source pattern and the destination of rule k of entry e
Pattern(e, k) == lock[e].install[k][1]

Destination(e, k) == lock[e].install[k][2]

\* f begins with the characters of p
HasPrefix(f, p) == Len(p) <= Len(f) /\ \A c \in 1..Len(p) : f[c] = p[c]

\* f without its first n characters
Rest(f, n) == [c \in 1..(Len(f) - n) |-> f[c + n]]

\* the positions of the log that belong to rule k of entry e
ForRule(e, k) == {j \in 1..Len(log) : log[j].e = e /\ log[j].r = k}

\* C5: a rule whose pattern P ends with "/", once compiled, matches a name F
\* exactly when F begins with P, and every effect of the rule goes to D joined with F
\* without P, the write carrying the payload of the member; a member that is
\* no directory is written by the rule exactly when its name begins with P;
\* installing the archive of the one member lib/x.so with the one rule
\* lib/ -> vendor leaves exactly the file vendor/x.so, holding the payload.
DirectoryRuleStripsPrefix ==
    cmd = "install" =>
      /\ \A e \in 1..Len(lock) : \A k \in 1..Len(lock[e].install) :
           (EndsWith(Pattern(e, k), <<"/">>) /\ Pattern(e, k) # <<".">>) =>
             /\ JustCompiled(e) => \A f \in Names :
                  /\ Match(Rules(e)[k], f) <=> HasPrefix(f, Pattern(e, k))
                  /\ HasPrefix(f, Pattern(e, k)) =>
                       Translate(Rules(e)[k], f) =
                         PathJoin(Destination(e, k), Rest(f, Len(Pattern(e, k))))
             /\ \A j \in ForRule(e, k) :
                  /\ HasPrefix(Name(e, log[j].m), Pattern(e, k))
                  /\ log[j].op \in {"echo", "open", "write", "chmod"} =>
                       log[j].path = PathJoin(Destination(e, k),
                                              Rest(Name(e, log[j].m), Len(Pattern(e, k))))
                  /\ log[j].op = "write" =>
                       /\ log[j].val = Members(e)[log[j].m].payload
                       /\ (j = Len(log) \/ log[j + 1].path = log[j].path) =>
                            fs[log[j].path].data = Members(e)[log[j].m].payload
             /\ \A mm \in 1..Len(Members(e)) :
                  (Done(e, mm) /\ ~EndsWith(Name(e, mm), <<"/">>)) =>
                    ((\E j \in Writes(e, mm) : log[j].r = k)
                       <=> HasPrefix(Name(e, mm), Pattern(e, k)))
      /\ (/\ status = "ok"
          /\ lock = << LockEntry(P42, 7, << <<S_lib, S_vendor>> >>) >>
          /\ Len(Members(1)) = 1 /\ Name(1, 1) = S_lib_x_so) =>
            /\ DOMAIN fs = {S_vendor_x_so}
            /\ fs[S_vendor_x_so].data = Members(1)[1].payload
            /\ Cardinality(Writes(1, 1)) = 1

\* C5 happens: lib/x.so was installed by the rule lib/ -> vendor
LibInstalledUnderVendor ==
    /\ cmd = "install" /\ status = "ok"
    /\ lock = << LockEntry(P42, 7, << <<S_lib, S_vendor>> >>) >>
    /\ Len(Members(1)) = 1 /\ Name(1, 1) = S_lib_x_so
    /\ S_vendor_x_so \in DOMAIN fs
    /\ fs[S_vendor_x_so].data = <<1, 2>>

\* C6: a rule whose pattern P is not "." and does not end with "/", the empty
\* pattern included, matches a name only when the name is P and translates
\* every name to the destination as it stands; its effects are for members
\* named P and go to the destination; a member that is no directory is written
\* by the rule exactly when its name is P, so the empty pattern acts on a
\* member with the empty name alone.
ExactFileRule ==
    cmd = "install" =>
      \A e \in 1..Len(lock) : \A k \in 1..Len(lock[e].install) :
        (Pattern(e, k) # <<".">> /\ ~EndsWith(Pattern(e, k), <<"/">>)) =>
          /\ JustCompiled(e) => \A f \in Names :
               /\ Match(Rules(e)[k], f) <=> f = Pattern(e, k)
               /\ Translate(Rules(e)[k], f) = Destination(e, k)
          /\ \A j \in ForRule(e, k) :
               /\ Name(e, log[j].m) = Pattern(e, k)
               /\ log[j].op \in {"echo", "open", "write", "chmod"} =>
                    log[j].path = Destination(e, k)
               /\ Pattern(e, k) = <<>> => Name(e, log[j].m) = <<>>
          /\ \A mm \in 1..Len(Members(e)) :
               (Done(e, mm) /\ ~EndsWith(Name(e, mm), <<"/">>)) =>
                 ((\E j \in Writes(e, mm) : log[j].r = k) <=> Name(e, mm) = Pattern(e, k))

\* C6 happens: the empty pattern installed a member with the empty name
EmptyPatternMatchedEmptyName ==
    /\ cmd = "install" /\ Len(lock) = 1 /\ Len(lock[1].install) = 1
    /\ Pattern(1, 1) = <<>> /\ Name(1, 1) = <<>>
    /\ \E j \in Writes(1, 1) : log[j].path = Destination(1, 1)

====
